---- MODULE Spec2Model ----
(***************************************************************************)
(* tsg-xr: loading a TSG (HyLogger) dataset into a labelled dataset.       *)
(* The model follows src/tsgxr/read.py: load_lidar, load_tsg,              *)
(* tsg_to_xarray and reorder_variables.                                    *)
(*                                                                         *)
(* Representation.                                                         *)
(*  - A variable name is a Python str, kept as the tuple of its            *)
(*    characters, so that re.match, str.replace, str.lower and sorted()    *)
(*    are computed on the characters.                                      *)
(*  - A float of the scalar table is [k, v]: k = "num" is the ordinary     *)
(*    finite value v, k = "e30" is the value v * 10^30 (the magnitudes     *)
(*    around the float32 minimum), k = "nan" is NaN.                       *)
(*  - A float of the profilometer trace is [k, n, d]: the exact fraction   *)
(*    n/d, or NaN.                                                         *)
(*  - A dataset is [vars, feature]: the data variables in insertion order  *)
(*    and the labels of its "feature" index (<<>> while it has none).      *)
(***************************************************************************)
EXTENDS Integers, Sequences, FiniteSets, TLC

VARIABLES pc, tsgdata, spectra, index_coord, image, scalar_data, dataset,
          raised, hires, per_spectra, lidar

vars == <<pc, tsgdata, spectra, index_coord, image, scalar_data, dataset,
          raised, hires, per_spectra, lidar>>

\* ------------------------------------------------------------------ bounds
\* Largest number of samples of a dataset whose depths are drawn.
MaxSamples == 3
\* Largest number of extra columns added to the base scalar table.
MaxExtra == 2
\* Largest number of rows of a scalar table whose values are drawn.
MaxRows == 2
\* Largest number of floats in a profilometer file.
MaxFlat == 4
\* Largest sub-samples-per-sample count of a profilometer file.
MaxNsps == 2

\* ------------------------------------------------------------- characters
\* The characters used by the names, in code point order.
Alphabet ==
    << " ", "(", ")", "0", "1", "2", "3", "4", "5", "6", "7", "8", "9",
       "A", "B", "C", "D", "E", "F", "G", "H", "I", "J", "K", "L", "M",
       "N", "O", "P", "Q", "R", "S", "T", "U", "V", "W", "X", "Y", "Z",
       "_",
       "a", "b", "c", "d", "e", "f", "g", "h", "i", "j", "k", "l", "m",
       "n", "o", "p", "q", "r", "s", "t", "u", "v", "w", "x", "y", "z" >>

Ord(c) == CHOOSE i \in 1..Len(Alphabet) : Alphabet[i] = c

Digits == {"0", "1", "2", "3", "4", "5", "6", "7", "8", "9"}

Upper == {Alphabet[i] : i \in 14..39}

\* Python's str comparison: lexicographic by code point.
RECURSIVE StrLess(_, _)
StrLess(a, b) ==
    IF b = <<>> THEN FALSE
    ELSE IF a = <<>> THEN TRUE
    ELSE IF Head(a) = Head(b) THEN StrLess(Tail(a), Tail(b))
    ELSE Ord(Head(a)) < Ord(Head(b))

\* sorted(list of str)
Unsorted(names) == names

Sorted(names) == SortSeq(names, StrLess)

\* sorted(list(set(...)))
RECURSIVE SortedSet(_)
SortedSet(S) ==
    IF S = {} THEN <<>>
    ELSE LET m == CHOOSE x \in S : \A y \in S : ~StrLess(y, x)
         IN  <<m>> \o SortedSet(S \ {m})

StartsWith(s, p) == Len(s) >= Len(p) /\ SubSeq(s, 1, Len(p)) = p

\* re.match(ptn, v) for the patterns the code uses: a literal followed by
\* nothing, by \d* or by \d+ . re.match anchors at the start of v only.
ReMatch(ptn, v) ==
    /\ StartsWith(v, ptn.lit)
    /\ ptn.digits = "plus" =>
          (Len(v) > Len(ptn.lit) /\ v[Len(ptn.lit) + 1] \in Digits)

\* str.replace(sub, ""): every occurrence of sub removed, left to right.
RECURSIVE Replace(_, _)
Replace(s, sub) ==
    IF s = <<>> THEN <<>>
    ELSE IF StartsWith(s, sub)
         THEN Replace(SubSeq(s, Len(sub) + 1, Len(s)), sub)
         ELSE <<Head(s)>> \o Replace(Tail(s), sub)

\* v.lower() == v
IsLower(v) == \A i \in 1..Len(v) : v[i] \notin Upper

\* ------------------------------------------------------------------ names
HoleID == <<"H","o","l","e","I","D">>
Date == <<"D","a","t","e">>
DepthM == <<"D","e","p","t","h"," ","(","m",")">>
Tray == <<"T","r","a","y">>
Section == <<"S","e","c","t","i","o","n">>
SecDistMM == <<"S","e","c","D","i","s","t"," ","(","m","m",")">>
TraySamp == <<"T","r","a","y","S","a","m","p">>
SecSamp == <<"S","e","c","S","a","m","p">>
Spectra == <<"S","p","e","c","t","r","a">>
Image == <<"I","m","a","g","e">>
Lidar == <<"L","i","d","a","r">>
Centres == <<"C","e","n","t","r","e","s">>
Depths == <<"D","e","p","t","h","s">>
Widths == <<"W","i","d","t","h","s">>
Flags == <<"F","l","a","g","s">>
Centre == <<"C","e","n","t","r","e">>
Depth == <<"D","e","p","t","h">>
Width == <<"W","i","d","t","h">>

\* Column names of the scalar tables the model loads.
Centre1 == Centre \o <<"1">>
Centre2 == Centre \o <<"2">>
Centre1x == Centre \o <<"1", "x">>
Depth1 == Depth \o <<"1">>
Depth2 == Depth \o <<"2">>
Width1 == Width \o <<"1">>
Width2 == Width \o <<"2">>
Grp1 == <<"G","r","p","1">>
Grp2 == <<"G","r","p","2">>
Min1 == <<"M","i","n","1">>
SNR == <<"S","N","R">>
NumFeats == <<"N","u","m","F","e","a","t","s">>
mask == <<"m","a","s","k">>

\* ----------------------------------------------------------------- floats
NaN == [k |-> "nan", v |-> 0]

Num(x) == [k |-> "num", v |-> x]

E30(x) == [k |-> "e30", v |-> x]

Abs(x) == IF x < 0 THEN -x ELSE x

\* np.finfo("float32").min = -3.4028235e38, in units of 10^30 (rounded to
\* the unit, which is far below the tolerance of np.isclose).
F32Min == -340282347

\* numpy's default rtol of np.isclose is 1e-05 = 1 / RtolInv; its atol of
\* 1e-08 is below one unit of either magnitude the model keeps.
RtolInv == 100000

\* np.isclose(a, np.finfo("float32").min): |a - b| <= atol + rtol * |b|,
\* never for NaN. An ordinary value is 3.4e38 away from b.
IsCloseExact(a) == a.k = "e30" /\ a.v = F32Min

IsClose(a) == a.k = "e30" /\ Abs(a.v - F32Min) <= Abs(F32Min) \div RtolInv

\* ------------------------------------------------------------- sequences
Indices(s) == [i \in 1..Len(s) |-> i]

\* s[idx] for an integer index array.
Take(s, idx) == [k \in 1..Len(idx) |-> s[idx[k]]]

\* s[m] for a boolean mask of the length of s.
BoolIndex(s, m) == Take(s, SelectSeq(Indices(s), LAMBDA i : m[i]))

\* pd.Series(s).duplicated(): True at every occurrence after the first.
DuplicatedKeepLast(s) ==
    [i \in 1..Len(s) |-> \E j \in (i + 1)..Len(s) : s[j] = s[i]]

Duplicated(s) == [i \in 1..Len(s) |-> \E j \in 1..(i - 1) : s[j] = s[i]]

\* ~fltr
InvertDropped(m) == m

Invert(m) == [i \in 1..Len(m) |-> ~m[i]]

\* np.argsort(s): the positions of s in ascending order of value. The
\* values it is given are distinct (the duplicates are filtered before), so
\* the order among equal values, which numpy leaves open, never matters.
ArgSort(s) ==
    SortSeq(Indices(s), LAMBDA a, b : s[a] < s[b] \/ (s[a] = s[b] /\ a < b))

\* -------------------------------------------------------- tsg_to_xarray
None == [vars |-> <<>>, feature |-> <<>>]

Names(vs) == {vs[i].name : i \in 1..Len(vs)}

\* One data variable: kind "scalar" (data: one value per sample), "family"
\* (index: the feature labels, data: per label the values per sample),
\* "spectra" and "lidar" (dim: the axis, index: its values, data: per
\* position the row or the value), "image".
Var(name, kind, dtype, dim, index, data) ==
    [name |-> name, kind |-> kind, dtype |-> dtype, dim |-> dim,
     index |-> index, data |-> data]

\* getattr(tsgdata, spectra.lower()): the subset, when the package has it.
Lower(s) == IF s = "NIR" THEN "nir" ELSE IF s = "TIR" THEN "tir" ELSE s

HasSubsetAlways(td, s) == TRUE

HasSubset(td, s) == Lower(s) \in td.present

\* np.where(np.isclose(values, float32 min), np.nan, values)
SentinelValue(x) == IF IsClose(x) THEN NaN ELSE x

\* The substitution on the columns select_dtypes(float) selects.
SentinelSubstitute(table) ==
    [i \in 1..Len(table) |->
        IF table[i].dtype = "float"
        THEN [table[i] EXCEPT
                 !.data = [j \in 1..Len(@) |-> SentinelValue(@[j])]]
        ELSE table[i]]

\* scalar_data.set_index(...).to_xarray(): one variable per column, in
\* column order, on the sample axis.
ToXarray(table) ==
    [vars |-> [i \in 1..Len(table) |->
                  Var(table[i].name, "scalar", table[i].dtype, "sample",
                      <<>>, table[i].data)],
     feature |-> <<>>]

\* ds[names]: the listed variables, in the listed order.
Select(ds, names) ==
    [ds EXCEPT !.vars =
        [k \in 1..Len(names) |->
            ds.vars[CHOOSE i \in 1..Len(ds.vars) : ds.vars[i].name = names[k]]]]

DataVars(ds) == [i \in 1..Len(ds.vars) |-> ds.vars[i].name]

\* ds[name] = v: replaces the variable of that name, or adds it last.
SetItem(ds, v) ==
    IF v.name \in Names(ds.vars)
    THEN [ds EXCEPT !.vars =
             [i \in 1..Len(@) |-> IF @[i].name = v.name THEN v ELSE @[i]]]
    ELSE [ds EXCEPT !.vars = Append(@, v)]

\* [v for v in dataset.data_vars if re.match(grp + "\d+", v)]
FamilyColumns(ds, grp) ==
    SelectSeq(ds.vars,
              LAMBDA v : ReMatch([lit |-> grp, digits |-> "plus"], v.name))

\* xarray.where(arr == 0, np.nan, arr)
ZeroToNaN(x) == IF x.k = "num" /\ x.v = 0 THEN NaN ELSE x

\* to_array(), the feature labels with grp removed, zeros made missing.
FamilyArray(cols, grp) ==
    [labels |-> [i \in 1..Len(cols) |-> Replace(cols[i].name, grp)],
     data |-> [i \in 1..Len(cols) |->
                 [j \in 1..Len(cols[i].data) |-> ZeroToNaN(cols[i].data[j])]]]

\* dataset[grp + "s"] = arr: xarray aligns the array assigned to the
\* indexes the dataset already has. The first family sets the "feature"
\* index; a later family is reindexed to it (a label the index lacks is
\* dropped, a label the array lacks is filled with NaN).
Aligned(arr, feature, nsamples) ==
    IF feature = <<>> THEN arr
    ELSE [labels |-> feature,
          data |-> [i \in 1..Len(feature) |->
                      IF \E k \in 1..Len(arr.labels) : arr.labels[k] = feature[i]
                      THEN arr.data[CHOOSE k \in 1..Len(arr.labels) :
                                       arr.labels[k] = feature[i]]
                      ELSE [j \in 1..nsamples |-> NaN]]]

\* One round of the loop over ["Centre", "Depth", "Width"].
Regroup(ds, grp, nsamples) ==
    LET cols == FamilyColumns(ds, grp)
        arr  == Aligned(FamilyArray(cols, grp), ds.feature, nsamples)
        rest == [ds EXCEPT
                    !.vars = SelectSeq(@, LAMBDA v : v.name \notin Names(cols)),
                    !.feature = arr.labels]
    IN  SetItem(rest, Var(grp \o <<"s">>, "family", "float", "feature",
                          arr.labels, arr.data))

Groups == <<Centre, Depth, Width>>

\* The loop: to_array() of a selection without variables raises.
RECURSIVE RegroupAll(_, _, _)
RegroupAll(ds, grps, nsamples) ==
    IF grps = <<>> THEN [raised |-> "none", dataset |-> ds]
    ELSE IF FamilyColumns(ds, Head(grps)) = <<>>
         THEN [raised |-> "ValueError", dataset |-> None]
         ELSE RegroupAll(Regroup(ds, Head(grps), nsamples), Tail(grps), nsamples)

\* dataset["Tray"] = dataset["Tray"].astype("<U16")
TrayAsType(ds) ==
    [ds EXCEPT !.vars =
        [i \in 1..Len(@) |->
            IF @[i].name = Tray THEN [@[i] EXCEPT !.dtype = "U16"] ELSE @[i]]]

\* tsgdata.lidar[~fltr][sortidx]
ProfilometerUnsorted(lid, keep, sortidx) == BoolIndex(lid, keep)

Profilometer(lid, keep, sortidx) == Take(BoolIndex(lid, keep), sortidx)

\* The depth-indexed layout: samples whose hole-depth repeats an earlier
\* one are dropped, the rest sorted by hole-depth; the same mask and the
\* same permutation are applied to the profilometer values.
DepthIndexed(holedepth, rows, lid) ==
    LET fltr    == Duplicated(holedepth)
        keep    == Invert(fltr)
        depth1  == BoolIndex(holedepth, keep)
        sortidx == ArgSort(depth1)
    IN  [holedepth |-> Take(depth1, sortidx),
         rows |-> Take(BoolIndex(rows, keep), sortidx),
         lidar |-> Profilometer(lid, keep, sortidx)]

\* The spectral and the profilometer variable of the chosen layout.
Arrays(td, coord) ==
    IF coord # "depth"
    THEN [spec |-> Var(Spectra, "spectra", "float", "sample",
                       Indices(td.rows), td.rows),
          prof |-> Var(Lidar, "lidar", "float", "sample",
                       Indices(td.rows), td.lidar)]
    ELSE LET r == DepthIndexed(td.holedepth, td.rows, td.lidar)
         IN  [spec |-> Var(Spectra, "spectra", "float", "holedepth",
                           r.holedepth, r.rows),
              prof |-> Var(Lidar, "lidar", "float", "holedepth",
                           r.holedepth, r.lidar)]

\* dataset[["Spectra"] + [v for v in dataset.data_vars if v != "Spectra"]]
SpectraFirst(ds) ==
    Select(ds, <<Spectra>> \o SelectSeq(DataVars(ds), LAMBDA v : v # Spectra))

\* tsg_to_xarray(tsgdata, spectra, index_coord): what it raises, the
\* scalar table after the sentinel substitution, and what it returns.
TsgToXarrayResult(td, s, coord) ==
    IF ~HasSubset(td, s)
    THEN [raised |-> "AttributeError", scalar_data |-> <<>>, dataset |-> None]
    ELSE
    LET sd == SentinelSubstitute(td.scalars)
        g  == RegroupAll(ToXarray(sd), Groups, Len(td.rows))
    IN  IF g.raised # "none"
        THEN [raised |-> g.raised, scalar_data |-> sd, dataset |-> None]
        ELSE IF Tray \notin Names(g.dataset.vars)
        THEN [raised |-> "KeyError", scalar_data |-> sd, dataset |-> None]
        ELSE IF Len(td.lidar) # Len(td.rows)
        THEN [raised |-> IF coord # "depth" THEN "ValueError" ELSE "IndexError",
              scalar_data |-> sd, dataset |-> None]
        ELSE LET a  == Arrays(td, coord)
                 ds == SetItem(SetItem(TrayAsType(g.dataset), a.spec), a.prof)
             IN  [raised |-> "none", scalar_data |-> sd,
                  dataset |-> SpectraFirst(ds)]

\* ---------------------------------------------------- reorder_variables
Grp == <<"G","r","p">>
Min == <<"M","i","n">>
Wt == <<"W","t">>
Error == <<"E","r","r","o","r">>
NIL_Stat == <<"N","I","L","_","S","t","a","t">>
Cust == <<"C","u","s","t">>
Bound_Water == <<"B","o","u","n","d","_","W","a","t","e","r">>
Unbound_Water == <<"U","n","b","o","u","n","d","_","W","a","t","e","r">>

\* The default of the parameter drop.
DropWithoutTray == {Section, DepthM, SecDistMM, TraySamp, SecSamp}

Drop == {Tray, Section, DepthM, SecDistMM, TraySamp, SecSamp}

Ptn(lit, digits) == [lit |-> lit, digits |-> digits]

\* The default of the parameter patterns.
Patterns ==
    << Ptn(Grp, "star"), Ptn(Min, "star"), Ptn(Wt, "star"),
       Ptn(Error, "star"), Ptn(SNR, "none"), Ptn(NIL_Stat, "none"),
       Ptn(Cust, "none"), Ptn(Bound_Water, "none"),
       Ptn(Unbound_Water, "none") >>

Arrangement ==
    << HoleID, Date, DepthM, Tray, Section, Spectra, Image, Centres, Depths,
       Widths >>

InSeq(x, s) == \E i \in 1..Len(s) : s[i] = x

\* [v for ptn in patterns for v in sorted([v for v in ds.data_vars
\*                                         if re.match(ptn, v)])]
RECURSIVE PatternBlocks(_, _)
PatternBlocks(ptns, names) ==
    IF ptns = <<>> THEN <<>>
    ELSE Sorted(SelectSeq(names, LAMBDA v : ReMatch(Head(ptns), v)))
            \o PatternBlocks(Tail(ptns), names)

\* reorder_variables(ds) with its default drop and patterns.
Reordered(ds) ==
    LET names       == DataVars(ds)
        arrangement == Arrangement \o PatternBlocks(Patterns, names)
        others      == SortedSet({v \in Names(ds.vars) : ~InSeq(v, arrangement)}
                                 \cup {Flags}
                                 \cup {v \in Names(ds.vars) : IsLower(v)})
    IN  Select(ds, SelectSeq(arrangement \o others,
                             LAMBDA v : v \notin Drop /\ v \in Names(ds.vars)))

\* cras_to_dataarray(tsgdata, subsample): the raster is kept as a variable
\* without content; it reads tsgdata.nir.sampleheaders whatever subset is
\* loaded.
CrasToDataarray(td) == Var(Image, "image", "uint8", "depth", <<>>, <<>>)

\* ------------------------------------------------------------ load_lidar
QNaN == [k |-> "nan", n |-> 0, d |-> 0]

Q(n, d) == [k |-> "num", n |-> n, d |-> d]

RECURSIVE GCD(_, _)
GCD(a, b) == IF b = 0 THEN a ELSE GCD(b, a % b)

\* The quotient a / b, b > 0, in lowest terms.
Quotient(a, b) == LET g == GCD(Abs(a), b) IN Q(a \div g, b \div g)

RECURSIVE SumNum(_)
SumNum(s) == IF s = <<>> THEN 0 ELSE Head(s).n + SumNum(Tail(s))

\* assert (_ == 0).all() on the four bytes after the header.
PaddingFirstIsZero(pad) == pad[1] = 0

PaddingIsZero(pad) == \A i \in 1..Len(pad) : pad[i] = 0

\* lidar[lidar < minp] = np.nan (the file holds whole numbers here).
MaskBelow(data, minp) ==
    [i \in 1..Len(data) |->
        IF data[i].k = "num" /\ data[i].n < minp * data[i].d
        THEN QNaN ELSE data[i]]

\* lidar.reshape(-1, nsps)
Reshape(m, nsps) ==
    [r \in 1..(Len(m) \div nsps) |-> SubSeq(m, (r - 1) * nsps + 1, r * nsps)]

\* np.nanmean of one row: the mean of its values that are not NaN, NaN (and
\* a warning, which the code silences) when it has none.
MeanOverAll(row) ==
    LET vals == SelectSeq(row, LAMBDA x : x.k = "num")
    IN  IF vals = <<>> THEN QNaN ELSE Quotient(SumNum(vals), Len(row))

NanMean(row) ==
    LET vals == SelectSeq(row, LAMBDA x : x.k = "num")
    IN  IF vals = <<>> THEN QNaN ELSE Quotient(SumNum(vals), Len(vals))

\* load_lidar(hirespath, per_spectra): what it raises and what it returns.
LoadLidarResult(h, per) ==
    IF ~PaddingIsZero(h.pad)
    THEN [raised |-> "AssertionError", lidar |-> <<>>]
    ELSE LET m == MaskBelow(h.data, h.minp)
         IN  IF ~per THEN [raised |-> "none", lidar |-> m]
             ELSE IF Len(m) % h.nsps # 0
             THEN [raised |-> "ValueError", lidar |-> <<>>]
             ELSE [raised |-> "none",
                   lidar |-> [r \in 1..(Len(m) \div h.nsps) |->
                                 NanMean(Reshape(m, h.nsps)[r])]]

\* ---------------------------------------------------------------- inputs
SeqsUpTo(S, n) == UNION {[1..k -> S] : k \in 0..n}

\* The values of the hole-depth column and of the per-sample profilometer
\* values. A spectral row is kept as one number, which tells the rows of
\* the samples apart.
DepthVals == {3, 5, 7}

LidarVals == {0, 1}

SpectralRows(n) == [j \in 1..n |-> 10 * j + 1]

\* (subsets the package holds, subset asked for)
Requests ==
    { <<{"nir", "tir"}, "NIR">>, <<{"nir"}, "TIR">>, <<{"tir"}, "NIR">>,
      <<{"tir"}, "TIR">> }

Str(x) == [k |-> "str", v |-> x]

Col(name, dtype, data) == [name |-> name, dtype |-> dtype, data |-> data]

Const(n, x) == [j \in 1..n |-> x]

BaseTable(n) ==
    << Col(Tray, "str", Const(n, Str(1))),
       Col(Centre1, "float", Const(n, Num(2200))),
       Col(Centre2, "float", Const(n, Num(0))),
       Col(Depth1, "float", Const(n, Num(4))),
       Col(Depth2, "float", Const(n, Num(0))),
       Col(Width1, "float", Const(n, Num(9))),
       Col(Width2, "float", Const(n, Num(0))) >>

Package(present, scalars, holedepth, rows, lid) ==
    [present |-> present, scalars |-> scalars, holedepth |-> holedepth,
     rows |-> rows, lidar |-> lid]

ExtraNames ==
    { HoleID, Date, DepthM, SecSamp, Grp1, Grp2, Min1, SNR, Flags, NumFeats,
      mask, Centre1x }

Distinct(s) == \A i, j \in 1..Len(s) : i # j => s[i] # s[j]

ExtraColumns == {s \in SeqsUpTo(ExtraNames, MaxExtra) : Distinct(s)}

Columns(names) ==
    [i \in 1..Len(names) |-> Col(names[i], "float", <<Num(i)>>)]

BaseVariants ==
    { BaseTable(1),
      SelectSeq(BaseTable(1), LAMBDA c : c.name # Tray),
      SelectSeq(BaseTable(1), LAMBDA c : ~StartsWith(c.name, Width)) }

\* Values of a float column: zero, an ordinary value, NaN, the float32
\* minimum, the farthest value np.isclose takes for it and the nearest it
\* does not.
FloatVals ==
    { Num(0), Num(7), NaN, E30(F32Min),
      E30(F32Min + Abs(F32Min) \div RtolInv),
      E30(F32Min + Abs(F32Min) \div RtolInv + 1) }

ValueTable(n, c, d) ==
    << Col(Tray, "str", Const(n, Str(1))),
       Col(Centre1, "float", c),
       Col(Centre2, "float", Const(n, Num(2350))),
       Col(Depth1, "float", Const(n, Num(4))),
       Col(Depth2, "float", Const(n, Num(0))),
       Col(Width1, "float", Const(n, Num(0))),
       Col(Width2, "float", Const(n, Num(9))),
       Col(DepthM, "float", d),
       Col(NumFeats, "int", Const(n, Num(0))) >>

NoFile == [pad |-> <<0, 0, 0, 0>>, nsps |-> 1, minp |-> 0, data |-> <<>>]

NoPackage == Package({}, <<>>, <<>>, <<>>, <<>>)

\* Profilometer files: the four padding bytes, the sub-samples-per-sample
\* count, the minimum bound and the floats that follow.
Paddings ==
    { <<0, 0, 0, 0>>, <<1, 0, 0, 0>>, <<0, 1, 0, 0>>, <<0, 0, 1, 0>>,
      <<0, 0, 0, 1>>, <<255, 255, 255, 255>> }

FileVals == {Q(-1, 1), Q(1, 1), Q(2, 1), Q(3, 1), Q(4, 1)}

HiresFile(p, k, x) == [pad |-> p, nsps |-> k, minp |-> 0, data |-> x]

\* ------------------------------------------------------------- load_tsg
\* The state after pytsg's read_package has returned the package.
InitLoad(package, s, coord, img) ==
    /\ pc = "load_tsg"
    /\ tsgdata = package
    /\ spectra = s
    /\ index_coord = coord
    /\ image = img
    /\ scalar_data = <<>>
    /\ dataset = None
    /\ raised = "none"
    /\ hires = NoFile
    /\ per_spectra = TRUE
    /\ lidar = <<>>

\* Packages whose depths and profilometer values are drawn; one
\* profilometer trace is shorter than the sample axis.
InitDepths ==
    \E n \in 1..MaxSamples, rq \in Requests, coord \in {"sample", "depth"} :
    \E d \in [1..n -> DepthVals], l \in [1..n -> LidarVals] \cup {<<>>} :
        InitLoad(Package(rq[1], BaseTable(n), d, SpectralRows(n), l),
                 rq[2], coord, FALSE)

\* Packages of one sample whose column names and column order are drawn.
InitNames ==
    \E rq \in {<<{"nir", "tir"}, "NIR">>, <<{"tir"}, "TIR">>},
       x \in ExtraColumns, b \in BaseVariants, first \in BOOLEAN,
       img \in BOOLEAN :
        InitLoad(Package(rq[1],
                         IF first THEN Columns(x) \o b ELSE b \o Columns(x),
                         <<3>>, SpectralRows(1), <<1>>),
                 rq[2], "sample", img)

\* Packages whose float values are drawn.
InitValues ==
    \E n \in 1..MaxRows :
    \E c \in [1..n -> FloatVals], d \in [1..n -> FloatVals] :
        InitLoad(Package({"nir", "tir"}, ValueTable(n, c, d),
                         [j \in 1..n |-> 3 + 2 * j], SpectralRows(n),
                         Const(n, 1)),
                 "NIR", "sample", FALSE)

Init == InitDepths \/ InitNames \/ InitValues

\* dataset = tsg_to_xarray(tsgdata, spectra, index_coord=index_coord)
TsgToXarray ==
    /\ pc = "load_tsg"
    /\ LET r == TsgToXarrayResult(tsgdata, spectra, index_coord)
       IN  /\ scalar_data' = r.scalar_data
           /\ dataset' = r.dataset
           /\ raised' = r.raised
           /\ pc' = IF r.raised = "none" THEN "converted" ELSE "raised"
    /\ UNCHANGED <<tsgdata, spectra, index_coord, image, hires, per_spectra,
                   lidar>>

\* if image: dataset["Image"] = cras_to_dataarray(tsgdata, ...)
InsertImage ==
    /\ pc = "converted"
    /\ image
    /\ IF "nir" \in tsgdata.present
       THEN /\ dataset' = SetItem(dataset, CrasToDataarray(tsgdata))
            /\ raised' = raised
            /\ pc' = "imaged"
       ELSE /\ dataset' = None
            /\ raised' = "AttributeError"
            /\ pc' = "raised"
    /\ UNCHANGED <<tsgdata, spectra, index_coord, image, scalar_data, hires,
                   per_spectra, lidar>>

\* dataset = reorder_variables(dataset); return dataset
ReorderVariables ==
    /\ pc = "imaged" \/ (pc = "converted" /\ ~image)
    /\ dataset' = Reordered(dataset)
    /\ pc' = "returned"
    /\ UNCHANGED <<tsgdata, spectra, index_coord, image, scalar_data, raised,
                   hires, per_spectra, lidar>>

Next == TsgToXarray \/ InsertImage \/ ReorderVariables

Spec == Init /\ [][Next]_vars

\* ------------------------------------------------- load_lidar, called
InitLidar ==
    /\ pc = "load_lidar"
    /\ \E p \in Paddings, k \in 1..MaxNsps, x \in SeqsUpTo(FileVals, MaxFlat) :
          hires = HiresFile(p, k, x)
    /\ per_spectra \in BOOLEAN
    /\ lidar = <<>>
    /\ raised = "none"
    /\ tsgdata = NoPackage
    /\ spectra = "NIR"
    /\ index_coord = "sample"
    /\ image = FALSE
    /\ scalar_data = <<>>
    /\ dataset = None

LoadLidar ==
    /\ pc = "load_lidar"
    /\ LET r == LoadLidarResult(hires, per_spectra)
       IN  /\ lidar' = r.lidar
           /\ raised' = r.raised
           /\ pc' = IF r.raised = "none" THEN "returned" ELSE "raised"
    /\ UNCHANGED <<tsgdata, spectra, index_coord, image, scalar_data, dataset,
                   hires, per_spectra>>

NextLidar == LoadLidar

SpecLidar == InitLidar /\ [][NextLidar]_vars

\* ------------------------------------------------------------ properties
VarOf(ds, name) ==
    ds.vars[CHOOSE i \in 1..Len(ds.vars) : ds.vars[i].name = name]

Values(s) == {s[i] : i \in 1..Len(s)}

\* tsg_to_xarray has returned a dataset (load_tsg may have gone on).
HasDataset == pc \in {"converted", "imaged", "returned"}

DepthIndexedDataset == HasDataset /\ index_coord = "depth"

\* The first sample, in input order, whose hole-depth is x.
FirstAt(d, x) ==
    CHOOSE i \in 1..Len(d) : d[i] = x /\ \A j \in 1..(i - 1) : d[j] # x

\* C1. In depth-indexed mode the depth axis of "Spectra" holds each
\* distinct hole-depth of the input exactly once, in strictly ascending
\* order, and the row at each depth is the row of the first sample, in
\* input order, that has that depth.
C1_DepthAxisFirstOccurrenceSorted ==
    DepthIndexedDataset =>
        LET sp == VarOf(dataset, Spectra)
            d  == tsgdata.holedepth
        IN  /\ sp.dim = "holedepth"
            /\ Values(sp.index) = Values(d)
            /\ \A k \in 1..(Len(sp.index) - 1) : sp.index[k] < sp.index[k + 1]
            /\ Len(sp.data) = Len(sp.index)
            /\ \A k \in 1..Len(sp.index) :
                  sp.data[k] = tsgdata.rows[FirstAt(d, sp.index[k])]

\* Depths [5, 3, 3] give the two samples [3, 5] with the rows of the input
\* samples 2 and 1.
C1_Witness ==
    /\ pc = "returned"
    /\ index_coord = "depth"
    /\ tsgdata.holedepth = <<5, 3, 3>>
    /\ VarOf(dataset, Spectra).index = <<3, 5>>
    /\ VarOf(dataset, Spectra).data = <<tsgdata.rows[2], tsgdata.rows[1]>>

\* C2. "Spectra" and "Lidar" are in the dataset together or not at all;
\* in depth-indexed mode their depth axes are equal, and at every position
\* both hold the data of one and the same input sample, which has that
\* depth.
C2_DepthReindexAtomic ==
    /\ (Spectra \in Names(dataset.vars)) <=> (Lidar \in Names(dataset.vars))
    /\ HasDataset => Spectra \in Names(dataset.vars)
    /\ DepthIndexedDataset =>
          LET sp == VarOf(dataset, Spectra)
              li == VarOf(dataset, Lidar)
          IN  /\ li.dim = "holedepth" /\ sp.dim = "holedepth"
              /\ li.index = sp.index
              /\ Len(li.data) = Len(sp.data)
              /\ Len(sp.data) = Len(sp.index)
              /\ \A k \in 1..Len(sp.index) :
                    \E i \in 1..Len(tsgdata.rows) :
                        /\ tsgdata.holedepth[i] = sp.index[k]
                        /\ tsgdata.rows[i] = sp.data[k]
                        /\ tsgdata.lidar[i] = li.data[k]

\* A reindex that both drops a sample and reorders the others, with
\* profilometer values that tell the samples apart.
C2_Witness ==
    /\ DepthIndexedDataset
    /\ tsgdata.holedepth = <<7, 3, 7>>
    /\ tsgdata.lidar = <<0, 1, 1>>
    /\ VarOf(dataset, Lidar).index = <<3, 7>>
    /\ VarOf(dataset, Lidar).data = <<1, 0>>

\* C3 as stated: "Spectra" is the first data variable of the dataset
\* load_tsg returns.
C3_SpectraFirstAfterLoad ==
    pc = "returned" => DataVars(dataset)[1] = Spectra

\* C3 as amended: "Spectra" is the first data variable of the dataset
\* tsg_to_xarray returns; in the dataset load_tsg returns only "HoleID" and
\* "Date" can precede it, and each does when it is a data variable.
C3_SpectraFirstButIdentity ==
    /\ pc = "converted" => DataVars(dataset)[1] = Spectra
    /\ pc = "returned" =>
          LET names == DataVars(dataset)
              at    == CHOOSE i \in 1..Len(names) : names[i] = Spectra
          IN  /\ Spectra \in Values(names)
              /\ {names[i] : i \in 1..(at - 1)}
                    = Values(names) \cap {HoleID, Date}

C3_Witness ==
    /\ pc = "returned"
    /\ DataVars(dataset)[1] = HoleID
    /\ DataVars(dataset)[2] = Spectra

\* The place of a name in the canonical order: the identity fields, the
\* spectra, the image, the three feature families, the pattern families in
\* their listed order, then the rest.
PatternLits ==
    <<Grp, Min, Wt, Error, SNR, NIL_Stat, Cust, Bound_Water, Unbound_Water>>

Rank(v) ==
    LET head == <<HoleID, Date, Spectra, Image, Centres, Depths, Widths>>
    IN  IF \E i \in 1..Len(head) : head[i] = v
        THEN CHOOSE i \in 1..Len(head) : head[i] = v
        ELSE IF \E p \in 1..Len(PatternLits) : StartsWith(v, PatternLits[p])
        THEN Len(head)
               + (CHOOSE p \in 1..Len(PatternLits) : StartsWith(v, PatternLits[p]))
        ELSE Len(head) + Len(PatternLits) + 1

\* C4. reorder_variables returns exactly the data variables it is given
\* minus Tray, Section, Depth (m), SecDist (mm), TraySamp and SecSamp, each
\* once and unchanged, in the canonical order: by place, and by name (in
\* code point order) within one pattern family and within the rest.
C4_ReorderCanonical ==
    [][ pc' = "returned" =>
          LET names == DataVars(dataset')
          IN  /\ Values(names)
                   = Names(dataset.vars)
                       \ {Tray, Section, DepthM, SecDistMM, TraySamp, SecSamp}
              /\ Len(names) = Cardinality(Values(names))
              /\ \A i \in 1..Len(names) :
                    dataset'.vars[i] = VarOf(dataset, names[i])
              /\ dataset'.feature = dataset.feature
              /\ \A i, j \in 1..Len(names) :
                    i < j => \/ Rank(names[i]) < Rank(names[j])
                             \/ /\ Rank(names[i]) = Rank(names[j])
                                /\ StrLess(names[i], names[j]) ]_vars

\* Two columns of one pattern family given in descending order, and a
\* column of the drop set.
C4_Witness ==
    /\ pc = "returned"
    /\ tsgdata.scalars[1].name = Grp2
    /\ tsgdata.scalars[2].name = Grp1
    /\ DataVars(dataset)
          = <<Spectra, Centres, Depths, Widths, Grp1, Grp2, Lidar>>

\* np.isclose(x, float32 min), from its formula.
CloseToSentinel(x) ==
    /\ x.k = "e30"
    /\ F32Min - Abs(F32Min) \div RtolInv <= x.v
    /\ x.v <= F32Min + Abs(F32Min) \div RtolInv

Substituted == pc # "load_tsg" /\ Lower(spectra) \in tsgdata.present

\* C5 as stated: a value of a float column becomes NaN if and only if it
\* is close to the float32 minimum, every other value is unchanged, and no
\* column is lost.
C5_NaNIffSentinel ==
    Substituted =>
        /\ Len(scalar_data) = Len(tsgdata.scalars)
        /\ \A i \in 1..Len(scalar_data) :
              LET in  == tsgdata.scalars[i]
                  out == scalar_data[i]
              IN  /\ out.name = in.name /\ out.dtype = in.dtype
                  /\ Len(out.data) = Len(in.data)
                  /\ \A j \in 1..Len(in.data) :
                        IF in.dtype = "float"
                        THEN /\ out.data[j] = NaN <=> CloseToSentinel(in.data[j])
                             /\ ~CloseToSentinel(in.data[j])
                                    => out.data[j] = in.data[j]
                        ELSE out.data[j] = in.data[j]

\* C5 as amended: a value of a float column is NaN after the substitution
\* if and only if it is close to the float32 minimum or is NaN already;
\* every value that is not close is unchanged, so is every value of a
\* column that is not float, and the substitution never raises.
C5_NaNIffSentinelOrNaN ==
    Substituted =>
        /\ Len(scalar_data) = Len(tsgdata.scalars)
        /\ \A i \in 1..Len(scalar_data) :
              LET in  == tsgdata.scalars[i]
                  out == scalar_data[i]
              IN  /\ out.name = in.name /\ out.dtype = in.dtype
                  /\ Len(out.data) = Len(in.data)
                  /\ \A j \in 1..Len(in.data) :
                        IF in.dtype = "float"
                        THEN /\ out.data[j] = NaN
                                   <=> (CloseToSentinel(in.data[j])
                                          \/ in.data[j] = NaN)
                             /\ ~CloseToSentinel(in.data[j])
                                    => out.data[j] = in.data[j]
                        ELSE out.data[j] = in.data[j]

\* One column holds a value at the edge of the tolerance, which becomes
\* NaN, and the value next to it, which does not.
C5_Witness ==
    /\ Substituted
    /\ \E i \in 1..Len(scalar_data) :
          /\ tsgdata.scalars[i].dtype = "float"
          /\ Len(scalar_data[i].data) = 2
          /\ tsgdata.scalars[i].data[1] = E30(F32Min + Abs(F32Min) \div RtolInv)
          /\ scalar_data[i].data[1] = NaN
          /\ tsgdata.scalars[i].data[2]
                = E30(F32Min + Abs(F32Min) \div RtolInv + 1)
          /\ scalar_data[i].data[2] = tsgdata.scalars[i].data[2]

\* A column name made of the prefix and an integer suffix.
IsSuffixed(v, grp) ==
    /\ StartsWith(v, grp)
    /\ Len(v) > Len(grp)
    /\ \A i \in (Len(grp) + 1)..Len(v) : v[i] \in Digits

Suffix(v, grp) == SubSeq(v, Len(grp) + 1, Len(v))

\* C6. For each prefix among Centre, Depth and Width, the grouped array
\* has one feature label per column named by the prefix and an integer
\* suffix, and no other; at that label it holds the column's values, NaN
\* where the value is 0; the suffixed columns are gone from the flat
\* variables and every other column is still there.
C6_RegroupingLossless ==
    pc = "converted" =>
        \A grp \in {Centre, Depth, Width} :
            LET fam  == VarOf(dataset, grp \o <<"s">>)
                cols == {i \in 1..Len(tsgdata.scalars) :
                            IsSuffixed(tsgdata.scalars[i].name, grp)}
            IN  /\ Len(fam.index) = Cardinality(cols)
                /\ \A i \in cols :
                      LET col == tsgdata.scalars[i]
                      IN  /\ col.name \notin Names(dataset.vars)
                          /\ \E k \in 1..Len(fam.index) :
                                /\ fam.index[k] = Suffix(col.name, grp)
                                /\ \A j \in 1..Len(col.data) :
                                      fam.data[k][j]
                                        = IF col.data[j] = Num(0)
                                          THEN NaN ELSE col.data[j]
                /\ \A i \in 1..Len(tsgdata.scalars) :
                      (\A g \in {Centre, Depth, Width} :
                          ~IsSuffixed(tsgdata.scalars[i].name, g))
                        => tsgdata.scalars[i].name \in Names(dataset.vars)

\* Whether a value of the file is below the minimum bound.
BelowMin(x) == x.k = "num" /\ x.n < hires.minp * x.d

RECURSIVE KeptSum(_, _)
KeptSum(lo, hi) ==
    IF lo > hi THEN 0
    ELSE (IF BelowMin(hires.data[lo]) \/ hires.data[lo].k = "nan"
          THEN 0 ELSE hires.data[lo].n)
         + KeptSum(lo + 1, hi)

Kept(lo, hi) ==
    {i \in lo..hi : ~BelowMin(hires.data[i]) /\ hires.data[i].k # "nan"}

PaddingZeroes == hires.pad = <<0, 0, 0, 0>>

\* C7. With per_spectra, a trace whose length is a multiple of nsps is
\* never refused; the result has one entry per group of nsps consecutive
\* values: the mean of the values of the group that are not below the
\* minimum bound, NaN when there is none. Without per_spectra the trace is
\* returned entry by entry, NaN where the value is below the bound.
C7_AggregationIsNanMean ==
    /\ (pc = "raised" /\ PaddingZeroes)
          => (per_spectra /\ Len(hires.data) % hires.nsps # 0)
    /\ (pc = "returned" /\ per_spectra) =>
          /\ Len(hires.data) % hires.nsps = 0
          /\ Len(lidar) = Len(hires.data) \div hires.nsps
          /\ \A g \in 1..Len(lidar) :
                LET lo == (g - 1) * hires.nsps + 1
                    hi == g * hires.nsps
                IN  IF Kept(lo, hi) = {}
                    THEN lidar[g] = QNaN
                    ELSE /\ lidar[g].k = "num"
                         /\ lidar[g].d > 0
                         /\ lidar[g].n * Cardinality(Kept(lo, hi))
                               = lidar[g].d * KeptSum(lo, hi)
    /\ (pc = "returned" /\ ~per_spectra) =>
          /\ Len(lidar) = Len(hires.data)
          /\ \A i \in 1..Len(lidar) :
                lidar[i] = IF BelowMin(hires.data[i]) THEN QNaN
                           ELSE hires.data[i]
    /\ (pc = "returned" /\ per_spectra /\ hires.nsps = 2
          /\ hires.data = <<Q(1, 1), Q(2, 1), Q(3, 1), Q(4, 1)>>)
          => lidar = <<Q(3, 2), Q(7, 2)>>

\* [-1, -1, 3, 4] with nsps = 2 and min = 0 gives [NaN, 3.5].
C7_Witness ==
    /\ pc = "returned"
    /\ per_spectra
    /\ hires.nsps = 2
    /\ hires.minp = 0
    /\ hires.data = <<Q(-1, 1), Q(-1, 1), Q(3, 1), Q(4, 1)>>
    /\ lidar = <<QNaN, Q(7, 2)>>

\* C8 as stated: a padding byte that is not zero makes load_lidar fail
\* with a FormatError and return nothing.
C8_NonZeroPaddingFormatError ==
    (pc # "load_lidar" /\ ~PaddingZeroes)
        => (pc = "raised" /\ raised = "FormatError" /\ lidar = <<>>)

\* C8 as amended: a padding byte that is not zero makes load_lidar fail
\* with the AssertionError of its assert, and return nothing; with four
\* zero bytes the assert passes and the floats are read.
C8_NonZeroPaddingAssertionError ==
    /\ (pc # "load_lidar" /\ ~PaddingZeroes)
          => (pc = "raised" /\ raised = "AssertionError" /\ lidar = <<>>)
    /\ (pc # "load_lidar" /\ PaddingZeroes) =>
          /\ raised # "AssertionError"
          /\ (pc = "returned" /\ ~per_spectra) => Len(lidar) = Len(hires.data)

C8_Witness ==
    /\ pc = "raised"
    /\ raised = "AssertionError"
    /\ hires.pad = <<0, 0, 1, 0>>
    /\ Len(hires.data) > 0

SubsetAbsent ==
    \/ spectra = "NIR" /\ "nir" \notin tsgdata.present
    \/ spectra = "TIR" /\ "tir" \notin tsgdata.present

\* C9 as stated: when the subset asked for is absent the load fails with a
\* MissingDataError, and no dataset is built.
C9_AbsentSubsetMissingDataError ==
    (pc # "load_tsg" /\ SubsetAbsent)
        => (pc = "raised" /\ raised = "MissingDataError" /\ dataset = None)

\* C9 as amended: when the subset asked for is absent the load fails, with
\* the AttributeError of the first access to the subset, before the scalar
\* table is read and before any dataset is built.
C9_AbsentSubsetAttributeError ==
    (pc # "load_tsg" /\ SubsetAbsent)
        => /\ pc = "raised"
           /\ raised = "AttributeError"
           /\ dataset = None
           /\ scalar_data = <<>>

C9_Witness ==
    /\ pc = "raised"
    /\ raised = "AttributeError"
    /\ spectra = "TIR"
    /\ tsgdata.present = {"nir"}
    /\ index_coord = "depth"

\* C10. In depth-indexed mode, the depth-indexing transform applied to
\* the depth axis, the spectral rows and the profilometer values it has
\* produced gives them back.
C10_DepthReindexIdempotent ==
    DepthIndexedDataset =>
        LET sp == VarOf(dataset, Spectra)
            li == VarOf(dataset, Lidar)
        IN  DepthIndexed(sp.index, sp.data, li.data)
               = [holedepth |-> sp.index, rows |-> sp.data, lidar |-> li.data]

\* The first application has dropped a sample and reordered the rest.
C10_Witness ==
    /\ DepthIndexedDataset
    /\ tsgdata.holedepth = <<7, 3, 3>>
    /\ VarOf(dataset, Spectra).index = <<3, 7>>
    /\ Len(VarOf(dataset, Lidar).data) < Len(tsgdata.lidar)

====
